---- MODULE Spec2Model ----
(***************************************************************************)
(* Control core of the uxai-ugc-agent pipeline: the Orchestrator          *)
(* (agents/orchestrator.py), the Flask control surface that drives it     *)
(* (main.py) and the QA review/refine loop (agents/qa_reviewer.py).        *)
(*                                                                         *)
(* Time is counted in ticks of 1/30 s, so that a tenth of a second is 3   *)
(* ticks and round(x, 1) never meets an exact half.                        *)
(***************************************************************************)
EXTENDS Integers, Sequences, FiniteSets, TLC

(***************************************************************************)
(* Bounds of the model.                                                    *)
(***************************************************************************)
\* run requests the control surface issues in one behaviour of ServerSpec
MaxRuns == 3
\* config.HUMAN_REVIEW_TIMEOUT_SECONDS, in seconds: an environment setting
\* (120 when unset) that the model runs with a small value
HUMAN_REVIEW_TIMEOUT_SECONDS == 1
\* largest max_iterations the refinement loop is started with
MaxIter == 3

(***************************************************************************)
(* Program constants.                                                      *)
(***************************************************************************)
\* config.QA_AUTO_APPROVE_THRESHOLD (7.5), in half points
QA_AUTO_APPROVE_THRESHOLD == 15
\* Python's None, where a timestamp or a number is expected
None == -1

Seconds(n) == 30 * n

\* round(x, 1) on a non-negative time difference: the nearest multiple of
\* a tenth of a second (3 ticks)
Round1(x) == 3 * ((2 * x + 3) \div 6)

steps_list ==
    << "research", "review_research", "ideation", "scripting",
       "review_script", "qa_loop", "review_qa", "voiceover",
       "avatar_clips", "images", "assembly", "qa_video",
       "metadata", "finalize" >>

Steps == { steps_list[i] : i \in 1..Len(steps_list) }

\* the steps run_pipeline routes through _human_review_window
ReviewSteps == { "review_research", "review_script", "review_qa" }

\* the steps run_pipeline routes through _execute_step
ExecSteps == Steps \ (ReviewSteps \cup { "finalize" })

Threads == 1..MaxRuns

\* payloads are opaque: the data a gate was opened with, an empty override
\* body ({}), a non-empty override body
OverridePayloads == { "empty", "ovr" }

NoPending == [step |-> "none", data |-> "none", timeout_at |-> None]

\* what a gate returned, with the history of the gate that the properties
\* speak about: when it opened, and which overrides arrived while it was open
NoRet == [step |-> "none", payload |-> "none", how |-> "none", at |-> None,
          opened |-> None, own |-> "none", intime |-> FALSE, other |-> FALSE]

NoEmit == [event |-> "none", step |-> "none"]

\* final_manifest.json before _write_manifest has run
NoManifest == [writes |-> 0, steps |-> {}]

\* faulty variant of ManifestSources: the social metadata is left out
ManifestSourcesNoMetadata == { "research", "qa_loop", "assembly" }

\* the steps whose stored results _write_manifest copies into the manifest
\* (lines 296-301: research, qa_loop three times, assembly, metadata)
ManifestSources == { "research", "qa_loop", "assembly", "metadata" }

\* an answer of POST /api/run: the request was never made, or the handler
\* has started the thread and has yet to build its answer
NotAsked == -3
Unanswered == -2

\* get_status between two calls, and GET /api/status before the first answer
\* (steps: the snapshot of each step; seen: the step_data it was taken from)
ReaderIdle ==
    [pc |-> "idle", now |-> None, done_count |-> 0, progress |-> 0,
     timeout_rem |-> None, timeout_at |-> None]

NoReply ==
    [kind |-> "none", now |-> None, done_count |-> 0, progress_percent |-> 0,
     pending_step |-> "none", timeout_remaining |-> None, timeout_at |-> None,
     steps |-> << >>, seen |-> << >>]

VARIABLES
    status,          \* Orchestrator.status
    current_step,    \* Orchestrator.current_step ("none" for None)
    step_data,       \* Orchestrator.step_data
    results,         \* Orchestrator.results ("absent" for a missing key)
    overrides,       \* Orchestrator.overrides ("absent" for a missing key)
    pending_review,  \* Orchestrator.pending_review (NoPending for None)
    review_event,    \* Orchestrator.review_event: the flag of the Event
    session_id,      \* Orchestrator.session_id (None, or the second it names)
    start_time,      \* Orchestrator.start_time
    now,             \* the wall clock, in ticks
    th,              \* the pipeline threads main.run_pipeline has started
    quota,           \* run requests the control surface has yet to issue
    loop,            \* one activation of QAReviewerAgent.improve_loop
    manifest,        \* final_manifest.json: times written, step results it holds
    resp,            \* the session_id each answer of POST /api/run carried
    rd,              \* one activation of Orchestrator.get_status: its locals
    reply,           \* what the last GET /api/status answered
    llm              \* one activation of LLMClient.complete

vars == << status, current_step, step_data, results, overrides, pending_review,
           review_event, session_id, start_time, now, th, quota, loop,
           manifest, resp, rd, reply, llm >>

orch == << status, current_step, step_data, results, overrides, pending_review,
           review_event, session_id, start_time, now, th, quota,
           manifest, resp, rd, reply >>


(***************************************************************************)
(* Initial state: Orchestrator.__init__, no pipeline thread started.       *)
(***************************************************************************)
InitStepData ==
    [s \in Steps |-> [status |-> "pending", start_ts |-> None,
                      end_ts |-> None, duration_s |-> None]]

InitThread ==
    [pc |-> "unborn", idx |-> 0, sid |-> None, t_start |-> None,
     t_end |-> None, event_is_set |-> FALSE,
     wait_until |-> None, own |-> "none", intime |-> FALSE, other |-> FALSE, ret |-> NoRet,
     last_emit |-> NoEmit]

\* improve_loop, lines 170-173: the locals before the first iteration, with
\* the history the properties speak about: the calls made (reviews, revises),
\* the script handed to the last review (reviewed), what the model itself
\* answered (flag, failed), the first iteration that passed (first_pass) and
\* whether every score so far was below the threshold (all_low)
LoopIdle ==
    [pc |-> "idle", max_iterations |-> 0, iterations |-> 0,
     current_script |-> 1, score |-> 0, approved |-> FALSE,
     auto_approved |-> FALSE, reviews |-> 0, revises |-> 0, reviewed |-> 0,
     flag |-> FALSE, failed |-> FALSE, first_pass |-> 0, all_low |-> TRUE]

\* LLMClient.complete before it is called: the arguments (lines 26-33), the
\* requests sent, the error of each failed attempt, the seconds slept, the
\* response in hand and what left the call
LlmIdle ==
    [pc |-> "idle", model |-> "none", response_format |-> "none",
     max_tokens |-> 0, sent |-> << >>, errors |-> << >>, slept |-> 0,
     response |-> "none", returned |-> "none", raised |-> "none"]

OrchInit ==
    /\ status = "idle"
    /\ current_step = "none"
    /\ step_data = InitStepData
    /\ results = [s \in Steps |-> "absent"]
    /\ overrides = [s \in Steps |-> "absent"]
    /\ pending_review = NoPending
    /\ review_event = FALSE
    /\ session_id = None
    /\ start_time = None
    /\ now = 0
    /\ th = [t \in Threads |-> InitThread]
    /\ manifest = NoManifest
    /\ resp = [t \in Threads |-> NotAsked]
    /\ rd = ReaderIdle
    /\ reply = NoReply

\* Spec: one run of the pipeline (spec.md, section 1: a single pipeline
\* instance, a single run at a time) under a concurrent control surface that
\* cancels, submits overrides and lets the clock run.  Runs that overlap are
\* the subject of ServerSpec.
Init == OrchInit /\ quota = 1 /\ loop = LoopIdle /\ llm = LlmIdle

\* ServerSpec: the control surface asks for a run up to MaxRuns times
ServerInit == OrchInit /\ quota = MaxRuns /\ loop = LoopIdle /\ llm = LlmIdle

(***************************************************************************)
(* The wall clock.  It moves in whole seconds, and only while a gate is    *)
(* open and short of its deadline: that bounds the clock without ever      *)
(* stopping it under a waiting gate.                                       *)
(***************************************************************************)
Step(t) == steps_list[th[t].idx]

Alive(t) == th[t].pc \notin { "unborn", "done", "failed" }

InGate(t) == th[t].pc \in { "gate_opened", "gate_wait" }

TickSecond ==
    /\ \E t \in Threads :
          \/ th[t].pc = "gate_opened" /\ now < th[t].t_start + Seconds(HUMAN_REVIEW_TIMEOUT_SECONDS)
          \/ th[t].pc = "gate_wait" /\ now < th[t].wait_until
    /\ now' = now + Seconds(1)
    /\ UNCHANGED << status, current_step, step_data, results, overrides,
                    pending_review, review_event, session_id, start_time,
                    th, quota, loop,
                    manifest, resp, rd, reply, llm >>

(***************************************************************************)
(* Orchestrator.run_pipeline, lines 176-181: the thread's first statements.*)
(***************************************************************************)
RunBegin(t) ==
    /\ th[t].pc = "start"
    /\ session_id' = now \div 30
    /\ start_time' = now
    /\ status' = "running"
    /\ th' = [th EXCEPT ![t].pc = "ready", ![t].idx = 1,
                        ![t].sid = now \div 30]
    /\ UNCHANGED << current_step, step_data, results, overrides,
                    pending_review, review_event, now, quota, loop,
                    manifest, resp, rd, reply, llm >>

(***************************************************************************)
(* Orchestrator._execute_step.                                             *)
(***************************************************************************)
\* lines 74-92: up to the collaborator call
StepBegin(t) ==
    /\ th[t].pc = "ready"
    /\ Step(t) \in ExecSteps
    /\ current_step' = Step(t)
    /\ step_data' = [step_data EXCEPT ![Step(t)] =
                        [status |-> "running", start_ts |-> now,
                         end_ts |-> None, duration_s |-> None]]
    /\ th' = [th EXCEPT ![t].pc = "call", ![t].t_start = now,
                        ![t].ret = NoRet,
                        ![t].last_emit = [event |-> "step_start", step |-> Step(t)]]
    /\ UNCHANGED << status, results, overrides, pending_review, review_event,
                    session_id, start_time, now, quota, loop,
                    manifest, resp, rd, reply, llm >>

\* faulty variant of StepSucceed: the step that follows is passed over
StepSucceedSkipping(t) ==
    /\ th[t].pc = "call"
    /\ results' = [results EXCEPT ![Step(t)] = "result"]
    /\ step_data' = [step_data EXCEPT
                        ![Step(t)].status = "done",
                        ![Step(t)].end_ts = now,
                        ![Step(t)].duration_s = Round1(now - th[t].t_start)]
    /\ th' = [th EXCEPT ![t].pc = "ready",
                        ![t].idx = IF @ + 2 <= Len(steps_list) THEN @ + 2 ELSE @ + 1,
                        ![t].last_emit = [event |-> "step_complete", step |-> Step(t)]]
    /\ UNCHANGED << status, current_step, overrides, pending_review,
                    review_event, session_id, start_time, now, quota, loop,
                    manifest, resp, rd, reply, llm >>

\* lines 95-108: the collaborator returned
StepSucceed(t) ==
    /\ th[t].pc = "call"
    /\ results' = [results EXCEPT ![Step(t)] = "result"]
    /\ step_data' = [step_data EXCEPT
                        ![Step(t)].status = "done",
                        ![Step(t)].end_ts = now,
                        ![Step(t)].duration_s = Round1(now - th[t].t_start)]
    /\ th' = [th EXCEPT ![t].pc = "ready", ![t].idx = @ + 1,
                        ![t].last_emit = [event |-> "step_complete", step |-> Step(t)]]
    /\ UNCHANGED << status, current_step, overrides, pending_review,
                    review_event, session_id, start_time, now, quota, loop,
                    manifest, resp, rd, reply, llm >>

\* faulty variant of StepFail: the exception is recorded but not raised
\* again, and run_pipeline goes on with the next step
StepFailSwallowed(t) ==
    /\ th[t].pc = "call"
    /\ status' = "failed"
    /\ step_data' = [step_data EXCEPT
                        ![Step(t)].status = "error",
                        ![Step(t)].end_ts = now,
                        ![Step(t)].duration_s = Round1(now - th[t].t_start)]
    /\ th' = [th EXCEPT ![t].pc = "ready", ![t].idx = @ + 1,
                        ![t].last_emit = [event |-> "step_error", step |-> Step(t)]]
    /\ UNCHANGED << current_step, results, overrides, pending_review,
                    review_event, session_id, start_time, now, quota, loop,
                    manifest, resp, rd, reply, llm >>

\* lines 109-118, then 238-241: the collaborator raised
StepFail(t) ==
    /\ th[t].pc = "call"
    /\ status' = "failed"
    /\ step_data' = [step_data EXCEPT
                        ![Step(t)].status = "error",
                        ![Step(t)].end_ts = now,
                        ![Step(t)].duration_s = Round1(now - th[t].t_start)]
    /\ th' = [th EXCEPT ![t].pc = "failed",
                        ![t].last_emit = [event |-> "step_error", step |-> Step(t)]]
    /\ UNCHANGED << current_step, results, overrides, pending_review,
                    review_event, session_id, start_time, now, quota, loop,
                    manifest, resp, rd, reply, llm >>

(***************************************************************************)
(* Orchestrator._human_review_window.                                      *)
(***************************************************************************)
\* lines 122-145: the window is recorded and announced
GateOpen(t) ==
    /\ th[t].pc = "ready"
    /\ Step(t) \in ReviewSteps
    /\ step_data' = [step_data EXCEPT ![Step(t)] =
                        [status |-> "review", start_ts |-> now,
                         end_ts |-> None, duration_s |-> None]]
    /\ current_step' = Step(t)
    /\ pending_review' =
          [step |-> Step(t), data |-> "orig",
           timeout_at |-> now + Seconds(HUMAN_REVIEW_TIMEOUT_SECONDS)]
    /\ th' = [th EXCEPT ![t].pc = "gate_opened", ![t].t_start = now,
                        ![t].own = "none", ![t].intime = FALSE,
                        ![t].other = FALSE, ![t].ret = NoRet,
                        ![t].last_emit = [event |-> "review_window_open", step |-> Step(t)]]
    /\ UNCHANGED << status, results, overrides, review_event, session_id,
                    start_time, now, quota, loop,
                    manifest, resp, rd, reply, llm >>

\* line 148, and the start of the wait of line 149
GateClear(t) ==
    /\ th[t].pc = "gate_opened"
    /\ review_event' = FALSE
    /\ th' = [th EXCEPT ![t].pc = "gate_wait",
                        ![t].wait_until = now + Seconds(HUMAN_REVIEW_TIMEOUT_SECONDS)]
    /\ UNCHANGED << status, current_step, step_data, results, overrides,
                    pending_review, session_id, start_time, now, quota, loop,
                    manifest, resp, rd, reply, llm >>

\* faulty variant of WaitOver: the wait does not honour its timeout and returns at once
WaitOverAtOnce(t) == TRUE

\* faulty variant of WaitOver: the wait has no timeout and returns on the flag alone
WaitOverFlagOnly(t) == review_event

\* Event.wait(timeout) returns: the flag is set, or the timeout has elapsed
WaitOver(t) == review_event \/ now >= th[t].wait_until

\* faulty variant of ClosedPending: the override branch forgets to clear the window
ClosedPendingKept(event_is_set) ==
    IF event_is_set THEN pending_review ELSE NoPending

\* lines 160 and 167: pending_review = None, on both branches
ClosedPending(event_is_set) == NoPending

\* line 162: override if override else data
GatePayload(override) ==
    IF override \in { "absent", "empty" } THEN "orig" ELSE override

\* lines 149-168: the wait returns and the window is closed
GateReturn(t) ==
    /\ th[t].pc = "gate_wait"
    /\ WaitOver(t)
    /\ step_data' = [step_data EXCEPT
                        ![Step(t)].end_ts = now,
                        ![Step(t)].duration_s = Round1(now - th[t].t_start),
                        ![Step(t)].status = "done"]
    /\ pending_review' = ClosedPending(review_event)
    /\ th' = [th EXCEPT
                 ![t].pc = "ready",
                 ![t].idx = @ + 1,
                 ![t].wait_until = None,
                 ![t].own = "none", ![t].intime = FALSE, ![t].other = FALSE,
                 ![t].ret =
                     [step |-> Step(t),
                      payload |-> IF review_event
                                  THEN GatePayload(overrides[Step(t)])
                                  ELSE "orig",
                      how |-> IF review_event THEN "override" ELSE "timeout",
                      at |-> now,
                      opened |-> th[t].t_start,
                      own |-> th[t].own,
                      intime |-> th[t].intime,
                      other |-> th[t].other],
                 ![t].last_emit =
                     IF review_event THEN @
                     ELSE [event |-> "review_window_timeout", step |-> Step(t)]]
    /\ UNCHANGED << status, current_step, results, overrides, review_event,
                    session_id, start_time, now, quota, loop,
                    manifest, resp, rd, reply, llm >>

(***************************************************************************)
(* Orchestrator.run_pipeline, the statements between the wrapped steps.    *)
(***************************************************************************)
\* the places where run_pipeline itself unpacks a payload or does I/O:
\* ideation["selected_idea"] (194), final_script["segments"] (213),
\* video_manifest["vertical_720p"] (225), _write_manifest (231)
GlueSteps == { "scripting", "voiceover", "qa_video", "finalize" }

\* lines 238-241: an exception raised outside every wrapped step
GlueRaise(t) ==
    /\ th[t].pc = "ready"
    /\ Step(t) \in GlueSteps
    /\ status' = "failed"
    /\ th' = [th EXCEPT ![t].pc = "failed"]
    /\ UNCHANGED << current_step, step_data, results, overrides,
                    pending_review, review_event, session_id, start_time,
                    now, quota, loop,
                    manifest, resp, rd, reply, llm >>

\* lines 231-236: _write_manifest (290-309), then status completed
Finalize(t) ==
    /\ th[t].pc = "ready"
    /\ Step(t) = "finalize"
    /\ manifest' = [writes |-> manifest.writes + 1, steps |-> ManifestSources]
    /\ results' = [results EXCEPT !["finalize"] = "manifest"]
    /\ status' = "completed"
    /\ th' = [th EXCEPT ![t].pc = "done"]
    /\ UNCHANGED << current_step, step_data, overrides, pending_review,
                    review_event, session_id, start_time, now, quota, loop,
                    resp, rd, reply, llm >>

(***************************************************************************)
(* The control surface: the request handlers of main.py.                   *)
(***************************************************************************)
Spawned == { t \in Threads : th[t].pc # "unborn" }

\* the guard of POST /api/run (line 79): the request is refused as busy
Busy == status = "running"

\* POST /api/run, lines 74-85: the request is accepted and the thread started
ReqRun ==
    /\ quota > 0
    /\ ~Busy
    /\ quota' = quota - 1
    /\ th' = [th EXCEPT ![Cardinality(Spawned) + 1].pc = "start"]
    /\ resp' = [resp EXCEPT ![Cardinality(Spawned) + 1] = Unanswered]
    /\ UNCHANGED << status, current_step, step_data, results, overrides,
                    pending_review, review_event, session_id, start_time,
                    now, loop, manifest, rd, reply, llm >>

\* POST /api/run, lines 87-90: the answer is built from
\* orchestrator.session_id as it is by then
RunRespond(t) ==
    /\ resp[t] = Unanswered
    /\ resp' = [resp EXCEPT ![t] = session_id]
    /\ UNCHANGED << status, current_step, step_data, results, overrides,
                    pending_review, review_event, session_id, start_time,
                    now, th, quota, loop, manifest, rd, reply, llm >>

\* faulty variant of ReqCancel: the request also stops the pipeline thread
\* and closes the window it has open
ReqCancelStopping ==
    /\ status = "running"
    /\ status' = "idle"
    /\ pending_review' = NoPending
    /\ th' = [t \in Threads |->
                IF Alive(t) /\ th[t].pc # "start"
                THEN [th[t] EXCEPT !.pc = "failed"] ELSE th[t]]
    /\ UNCHANGED << current_step, step_data, results, overrides,
                    review_event, session_id, start_time,
                    now, quota, loop,
                    manifest, resp, rd, reply, llm >>

\* POST /api/cancel, lines 92-100
ReqCancel ==
    /\ status = "running"
    /\ status' = "idle"
    /\ UNCHANGED << current_step, step_data, results, overrides,
                    pending_review, review_event, session_id, start_time,
                    now, th, quota, loop,
                    manifest, resp, rd, reply, llm >>

\* POST /api/override/<step>, lines 109-113, and
\* Orchestrator.submit_human_override, lines 170-174
ReqOverride(s, p) ==
    /\ overrides' = [overrides EXCEPT ![s] = p]
    /\ review_event' = TRUE
    /\ th' = [t \in Threads |->
                IF ~InGate(t) THEN th[t]
                ELSE IF Step(t) = s
                THEN [th[t] EXCEPT
                        !.own = p,
                        !.intime = @ \/ now < th[t].t_start
                                              + Seconds(HUMAN_REVIEW_TIMEOUT_SECONDS)]
                ELSE [th[t] EXCEPT !.other = TRUE]]
    /\ UNCHANGED << status, current_step, step_data, results, pending_review,
                    session_id, start_time, now, quota, loop,
                    manifest, resp, rd, reply, llm >>

Pipeline(t) ==
    \/ RunBegin(t)
    \/ StepBegin(t)
    \/ StepSucceed(t)
    \/ StepFail(t)
    \/ GateOpen(t)
    \/ GateClear(t)
    \/ GateReturn(t)
    \/ GlueRaise(t)
    \/ Finalize(t)

Next ==
    \/ TickSecond
    \/ ReqRun
    \/ ReqCancel
    \/ \E s \in ReviewSteps, p \in OverridePayloads : ReqOverride(s, p)
    \/ \E t \in Threads : Pipeline(t)

\* Spec leaves out the two requests that only read the Orchestrator:
\* the answer of POST /api/run (RunRespond, in ServerSpec) and
\* GET /api/status (in WatchSpec)
Spec == Init /\ [][Next]_vars

\* ServerSpec: what the server can do before the first gate deadline, that
\* is with the clock still and every opened gate still waiting
ServerNext ==
    \/ ReqRun
    \/ ReqCancel
    \/ \E t \in Threads :
          \/ RunRespond(t)
          \/ RunBegin(t)
          \/ StepBegin(t)
          \/ StepSucceed(t)
          \/ StepFail(t)
          \/ GateOpen(t)
          \/ GateClear(t)

ServerSpec == ServerInit /\ [][ServerNext]_vars

(***************************************************************************)
(* Orchestrator.get_status, called by GET /api/status (main.py, lines      *)
(* 102-107) on the server's thread while the pipeline thread runs.  It     *)
(* takes no lock, and it reads pending_review at line 254, again at line   *)
(* 255 and again at lines 282-285.  Percentages are in hundredths.         *)
(***************************************************************************)
Max(a, b) == IF a >= b THEN a ELSE b

\* faulty variant of DoneCount: a step under way counts as progress
DoneCountActive ==
    Cardinality({ s \in Steps : step_data[s].status # "pending" })

\* line 250
DoneCount ==
    Cardinality({ s \in Steps : step_data[s].status \in { "done", "error" } })

\* lines 251 and 279: round((done_count / len(steps_list)) * 100, 2)
ProgressPercent(done_count) ==
    (2 * 10000 * done_count + Len(steps_list)) \div (2 * Len(steps_list))

\* faulty variant of TimeoutRem: the difference is not clamped at zero
TimeoutRemSigned(timeout_at, t) == timeout_at - t

\* line 255: max(0, self.pending_review["timeout_at"] - now)
TimeoutRem(timeout_at, t) == Max(0, timeout_at - t)

\* lines 260-271: the snapshot of one step (None for a key that is left out)
StepSnapshot(sd, t) ==
    [status |-> sd.status,
     duration_s |->
        IF sd.duration_s # None THEN sd.duration_s
        ELSE IF sd.status = "running" /\ sd.start_ts # None
             THEN Round1(t - sd.start_ts)
             ELSE None]

\* the request fails: an exception leaves get_status
StatusError ==
    /\ reply' = [NoReply EXCEPT !.kind = "error", !.now = rd.now]
    /\ rd' = ReaderIdle

\* lines 245-254: now, the progress, and the first look at pending_review
StatusBegin ==
    /\ rd.pc = "idle"
    /\ rd' = [pc |-> IF pending_review # NoPending THEN "L255" ELSE "L258",
              now |-> now,
              done_count |-> DoneCount,
              progress |-> ProgressPercent(DoneCount),
              timeout_rem |-> None,
              timeout_at |-> None]
    /\ UNCHANGED << status, current_step, step_data, results, overrides,
                    pending_review, review_event, session_id, start_time,
                    now, th, quota, loop, manifest, resp, reply, llm >>

\* line 255: pending_review is read again and subscripted
StatusRemaining ==
    /\ rd.pc = "L255"
    /\ IF pending_review = NoPending
       THEN StatusError
       ELSE /\ rd' = [rd EXCEPT
                        !.pc = "L258",
                        !.timeout_at = pending_review.timeout_at,
                        !.timeout_rem =
                            TimeoutRem(pending_review.timeout_at, rd.now)]
            /\ reply' = reply
    /\ UNCHANGED << status, current_step, step_data, results, overrides,
                    pending_review, review_event, session_id, start_time,
                    now, th, quota, loop, manifest, resp, llm >>

\* lines 258-288: the snapshot of the steps and the answer; pending_review
\* is read a third time, and round(timeout_rem, 1) raises on None
StatusReply ==
    /\ rd.pc = "L258"
    /\ IF pending_review # NoPending /\ rd.timeout_rem = None
       THEN StatusError
       ELSE /\ reply' =
                  [kind |-> "ok",
                   now |-> rd.now,
                   done_count |-> rd.done_count,
                   progress_percent |-> rd.progress,
                   pending_step |-> pending_review.step,
                   timeout_remaining |->
                       IF pending_review # NoPending
                       THEN Round1(rd.timeout_rem) ELSE None,
                   timeout_at |->
                       IF pending_review # NoPending
                       THEN rd.timeout_at ELSE None,
                   steps |-> [s \in Steps |-> StepSnapshot(step_data[s], rd.now)],
                   seen |-> step_data]
            /\ rd' = ReaderIdle
    /\ UNCHANGED << status, current_step, step_data, results, overrides,
                    pending_review, review_event, session_id, start_time,
                    now, th, quota, loop, manifest, resp, llm >>

GetStatus == StatusBegin \/ StatusRemaining \/ StatusReply

\* the clock of WatchSpec: it moves by two thirds of a second, which is not
\* a whole number of tenths, and only under a waiting gate
TickSize == 20

TickPart ==
    /\ \E t \in Threads : th[t].pc = "gate_wait" /\ now < th[t].wait_until
    /\ now' = now + TickSize
    /\ UNCHANGED << status, current_step, step_data, results, overrides,
                    pending_review, review_event, session_id, start_time,
                    th, quota, loop, manifest, resp, rd, reply, llm >>

\* WatchSpec: one run whose gates all time out, watched by a client that
\* polls GET /api/status
WatchNext ==
    \/ TickPart
    \/ ReqRun
    \/ GetStatus
    \/ \E t \in Threads :
          \/ RunBegin(t)
          \/ StepBegin(t)
          \/ StepSucceed(t)
          \/ StepFail(t)
          \/ GateOpen(t)
          \/ GateClear(t)
          \/ GateReturn(t)
          \/ Finalize(t)

WatchSpec == Init /\ [][WatchNext]_vars

(***************************************************************************)
(* FineSpec: one run of the pipeline statement by statement, as a thread   *)
(* that reads the Orchestrator without a lock can see it.  Each action is  *)
(* one assignment to the shared state, with the local computation before   *)
(* it; the thread's position is the line of its next shared statement.     *)
(***************************************************************************)
\* _execute_step, line 74
ExecEnter(t) ==
    /\ th[t].pc = "ready"
    /\ Step(t) \in ExecSteps
    /\ current_step' = Step(t)
    /\ th' = [th EXCEPT ![t].pc = "L79", ![t].ret = NoRet]
    /\ UNCHANGED << status, step_data, results, overrides, pending_review,
                    review_event, session_id, start_time, now, quota, loop,
                    manifest, resp, rd, reply, llm >>

\* lines 78-79
ExecMarkRunning(t) ==
    /\ th[t].pc = "L79"
    /\ step_data' = [step_data EXCEPT ![Step(t)].status = "running"]
    /\ th' = [th EXCEPT ![t].pc = "L80", ![t].t_start = now]
    /\ UNCHANGED << status, current_step, results, overrides, pending_review,
                    review_event, session_id, start_time, now, quota, loop,
                    manifest, resp, rd, reply, llm >>

\* line 80
ExecSetStart(t) ==
    /\ th[t].pc = "L80"
    /\ step_data' = [step_data EXCEPT ![Step(t)].start_ts = th[t].t_start]
    /\ th' = [th EXCEPT ![t].pc = "L81"]
    /\ UNCHANGED << status, current_step, results, overrides, pending_review,
                    review_event, session_id, start_time, now, quota, loop,
                    manifest, resp, rd, reply, llm >>

\* line 81
ExecClearEnd(t) ==
    /\ th[t].pc = "L81"
    /\ step_data' = [step_data EXCEPT ![Step(t)].end_ts = None]
    /\ th' = [th EXCEPT ![t].pc = "L82"]
    /\ UNCHANGED << status, current_step, results, overrides, pending_review,
                    review_event, session_id, start_time, now, quota, loop,
                    manifest, resp, rd, reply, llm >>

\* line 82
ExecClearDuration(t) ==
    /\ th[t].pc = "L82"
    /\ step_data' = [step_data EXCEPT ![Step(t)].duration_s = None]
    /\ th' = [th EXCEPT ![t].pc = "L84"]
    /\ UNCHANGED << status, current_step, results, overrides, pending_review,
                    review_event, session_id, start_time, now, quota, loop,
                    manifest, resp, rd, reply, llm >>

\* lines 84-92: step_start is emitted and the collaborator is called
ExecEmitStart(t) ==
    /\ th[t].pc = "L84"
    /\ th' = [th EXCEPT ![t].pc = "L95",
                        ![t].last_emit = [event |-> "step_start", step |-> Step(t)]]
    /\ UNCHANGED << status, current_step, step_data, results, overrides,
                    pending_review, review_event, session_id, start_time, now,
                    quota, loop, manifest, resp, rd, reply, llm >>

\* lines 95-96: the collaborator returns
ExecStoreResult(t) ==
    /\ th[t].pc = "L95"
    /\ results' = [results EXCEPT ![Step(t)] = "result"]
    /\ th' = [th EXCEPT ![t].pc = "L99"]
    /\ UNCHANGED << status, current_step, step_data, overrides, pending_review,
                    review_event, session_id, start_time, now, quota, loop,
                    manifest, resp, rd, reply, llm >>

\* lines 97-99
ExecMarkDone(t) ==
    /\ th[t].pc = "L99"
    /\ step_data' = [step_data EXCEPT ![Step(t)].status = "done"]
    /\ th' = [th EXCEPT ![t].pc = "L100", ![t].t_end = now]
    /\ UNCHANGED << status, current_step, results, overrides, pending_review,
                    review_event, session_id, start_time, now, quota, loop,
                    manifest, resp, rd, reply, llm >>

\* line 100
ExecSetEnd(t) ==
    /\ th[t].pc = "L100"
    /\ step_data' = [step_data EXCEPT ![Step(t)].end_ts = th[t].t_end]
    /\ th' = [th EXCEPT ![t].pc = "L101"]
    /\ UNCHANGED << status, current_step, results, overrides, pending_review,
                    review_event, session_id, start_time, now, quota, loop,
                    manifest, resp, rd, reply, llm >>

\* line 101, with the duration of line 98
ExecSetDuration(t) ==
    /\ th[t].pc = "L101"
    /\ step_data' = [step_data EXCEPT
                        ![Step(t)].duration_s = Round1(th[t].t_end - th[t].t_start)]
    /\ th' = [th EXCEPT ![t].pc = "L102"]
    /\ UNCHANGED << status, current_step, results, overrides, pending_review,
                    review_event, session_id, start_time, now, quota, loop,
                    manifest, resp, rd, reply, llm >>

\* lines 102-108: step_complete is emitted and the wrapper returns
ExecEmitComplete(t) ==
    /\ th[t].pc = "L102"
    /\ th' = [th EXCEPT ![t].pc = "ready", ![t].idx = @ + 1,
                        ![t].last_emit = [event |-> "step_complete", step |-> Step(t)]]
    /\ UNCHANGED << status, current_step, step_data, results, overrides,
                    pending_review, review_event, session_id, start_time, now,
                    quota, loop, manifest, resp, rd, reply, llm >>

\* lines 95 and 109-110: the collaborator raises
ExecCatch(t) ==
    /\ th[t].pc = "L95"
    /\ status' = "failed"
    /\ th' = [th EXCEPT ![t].pc = "L112"]
    /\ UNCHANGED << current_step, step_data, results, overrides, pending_review,
                    review_event, session_id, start_time, now, quota, loop,
                    manifest, resp, rd, reply, llm >>

\* lines 111-112
ExecMarkError(t) ==
    /\ th[t].pc = "L112"
    /\ step_data' = [step_data EXCEPT ![Step(t)].status = "error"]
    /\ th' = [th EXCEPT ![t].pc = "L113", ![t].t_end = now]
    /\ UNCHANGED << status, current_step, results, overrides, pending_review,
                    review_event, session_id, start_time, now, quota, loop,
                    manifest, resp, rd, reply, llm >>

\* line 113
ExecSetErrorEnd(t) ==
    /\ th[t].pc = "L113"
    /\ step_data' = [step_data EXCEPT ![Step(t)].end_ts = th[t].t_end]
    /\ th' = [th EXCEPT ![t].pc = "L114"]
    /\ UNCHANGED << status, current_step, results, overrides, pending_review,
                    review_event, session_id, start_time, now, quota, loop,
                    manifest, resp, rd, reply, llm >>

\* line 114
ExecSetErrorDuration(t) ==
    /\ th[t].pc = "L114"
    /\ step_data' = [step_data EXCEPT
                        ![Step(t)].duration_s = Round1(th[t].t_end - th[t].t_start)]
    /\ th' = [th EXCEPT ![t].pc = "L116"]
    /\ UNCHANGED << status, current_step, results, overrides, pending_review,
                    review_event, session_id, start_time, now, quota, loop,
                    manifest, resp, rd, reply, llm >>

\* lines 115-118: step_error is emitted and the exception raised again
ExecEmitError(t) ==
    /\ th[t].pc = "L116"
    /\ th' = [th EXCEPT ![t].pc = "L239",
                        ![t].last_emit = [event |-> "step_error", step |-> Step(t)]]
    /\ UNCHANGED << status, current_step, step_data, results, overrides,
                    pending_review, review_event, session_id, start_time, now,
                    quota, loop, manifest, resp, rd, reply, llm >>

\* run_pipeline, lines 238-241: the exception reaches the caller of run
RunCatch(t) ==
    /\ th[t].pc = "L239"
    /\ status' = "failed"
    /\ th' = [th EXCEPT ![t].pc = "failed"]
    /\ UNCHANGED << current_step, step_data, results, overrides, pending_review,
                    review_event, session_id, start_time, now, quota, loop,
                    manifest, resp, rd, reply, llm >>

\* _human_review_window, lines 122-126
GateMarkReview(t) ==
    /\ th[t].pc = "ready"
    /\ Step(t) \in ReviewSteps
    /\ step_data' = [step_data EXCEPT ![Step(t)].status = "review"]
    /\ th' = [th EXCEPT ![t].pc = "L127", ![t].t_start = now,
                        ![t].own = "none", ![t].intime = FALSE,
                        ![t].other = FALSE, ![t].ret = NoRet]
    /\ UNCHANGED << status, current_step, results, overrides, pending_review,
                    review_event, session_id, start_time, now, quota, loop,
                    manifest, resp, rd, reply, llm >>

\* line 127
GateSetStart(t) ==
    /\ th[t].pc = "L127"
    /\ step_data' = [step_data EXCEPT ![Step(t)].start_ts = th[t].t_start]
    /\ th' = [th EXCEPT ![t].pc = "L128"]
    /\ UNCHANGED << status, current_step, results, overrides, pending_review,
                    review_event, session_id, start_time, now, quota, loop,
                    manifest, resp, rd, reply, llm >>

\* line 128
GateClearEnd(t) ==
    /\ th[t].pc = "L128"
    /\ step_data' = [step_data EXCEPT ![Step(t)].end_ts = None]
    /\ th' = [th EXCEPT ![t].pc = "L129"]
    /\ UNCHANGED << status, current_step, results, overrides, pending_review,
                    review_event, session_id, start_time, now, quota, loop,
                    manifest, resp, rd, reply, llm >>

\* line 129
GateClearDuration(t) ==
    /\ th[t].pc = "L129"
    /\ step_data' = [step_data EXCEPT ![Step(t)].duration_s = None]
    /\ th' = [th EXCEPT ![t].pc = "L130"]
    /\ UNCHANGED << status, current_step, results, overrides, pending_review,
                    review_event, session_id, start_time, now, quota, loop,
                    manifest, resp, rd, reply, llm >>

\* line 130
GateSetCurrent(t) ==
    /\ th[t].pc = "L130"
    /\ current_step' = Step(t)
    /\ th' = [th EXCEPT ![t].pc = "L132"]
    /\ UNCHANGED << status, step_data, results, overrides, pending_review,
                    review_event, session_id, start_time, now, quota, loop,
                    manifest, resp, rd, reply, llm >>

\* lines 132-136
GateSetPending(t) ==
    /\ th[t].pc = "L132"
    /\ pending_review' =
          [step |-> Step(t), data |-> "orig",
           timeout_at |-> now + Seconds(HUMAN_REVIEW_TIMEOUT_SECONDS)]
    /\ th' = [th EXCEPT ![t].pc = "L138"]
    /\ UNCHANGED << status, current_step, step_data, results, overrides,
                    review_event, session_id, start_time, now, quota, loop,
                    manifest, resp, rd, reply, llm >>

\* lines 138-145
GateEmitOpen(t) ==
    /\ th[t].pc = "L138"
    /\ th' = [th EXCEPT ![t].pc = "L148",
                        ![t].last_emit = [event |-> "review_window_open", step |-> Step(t)]]
    /\ UNCHANGED << status, current_step, step_data, results, overrides,
                    pending_review, review_event, session_id, start_time, now,
                    quota, loop, manifest, resp, rd, reply, llm >>

\* line 148, and the start of the wait of line 149
GateClearEvent(t) ==
    /\ th[t].pc = "L148"
    /\ review_event' = FALSE
    /\ th' = [th EXCEPT ![t].pc = "L149",
                        ![t].wait_until = now + Seconds(HUMAN_REVIEW_TIMEOUT_SECONDS)]
    /\ UNCHANGED << status, current_step, step_data, results, overrides,
                    pending_review, session_id, start_time, now, quota, loop,
                    manifest, resp, rd, reply, llm >>

\* lines 149-153: the wait returns, and end_ts is stored
GateSetEnd(t) ==
    /\ th[t].pc = "L149"
    /\ review_event \/ now >= th[t].wait_until
    /\ step_data' = [step_data EXCEPT ![Step(t)].end_ts = now]
    /\ th' = [th EXCEPT ![t].pc = "L154", ![t].t_end = now,
                        ![t].event_is_set = review_event,
                        ![t].wait_until = None]
    /\ UNCHANGED << status, current_step, results, overrides, pending_review,
                    review_event, session_id, start_time, now, quota, loop,
                    manifest, resp, rd, reply, llm >>

\* line 154, with the duration of line 152
GateSetDuration(t) ==
    /\ th[t].pc = "L154"
    /\ step_data' = [step_data EXCEPT
                        ![Step(t)].duration_s = Round1(th[t].t_end - th[t].t_start)]
    /\ th' = [th EXCEPT ![t].pc = "L159"]
    /\ UNCHANGED << status, current_step, results, overrides, pending_review,
                    review_event, session_id, start_time, now, quota, loop,
                    manifest, resp, rd, reply, llm >>

\* lines 156-159 on a signal (with the override read at line 157), lines
\* 163-165 on a timeout
GateMarkDone(t) ==
    /\ th[t].pc = "L159"
    /\ step_data' = [step_data EXCEPT ![Step(t)].status = "done"]
    /\ th' = [th EXCEPT
                 ![t].pc = IF th[t].event_is_set THEN "L160" ELSE "L166",
                 ![t].ret = [NoRet EXCEPT
                               !.payload = IF th[t].event_is_set
                                           THEN GatePayload(overrides[Step(t)])
                                           ELSE "orig"]]
    /\ UNCHANGED << status, current_step, results, overrides, pending_review,
                    review_event, session_id, start_time, now, quota, loop,
                    manifest, resp, rd, reply, llm >>

\* line 166
GateEmitTimeout(t) ==
    /\ th[t].pc = "L166"
    /\ th' = [th EXCEPT ![t].pc = "L160",
                        ![t].last_emit = [event |-> "review_window_timeout", step |-> Step(t)]]
    /\ UNCHANGED << status, current_step, step_data, results, overrides,
                    pending_review, review_event, session_id, start_time, now,
                    quota, loop, manifest, resp, rd, reply, llm >>

\* lines 160-162 on a signal, lines 167-168 on a timeout
GateClose(t) ==
    /\ th[t].pc = "L160"
    /\ pending_review' = NoPending
    /\ th' = [th EXCEPT
                 ![t].pc = "ready",
                 ![t].idx = @ + 1,
                 ![t].ret = [@ EXCEPT
                               !.step = Step(t),
                               !.how = IF th[t].event_is_set
                                       THEN "override" ELSE "timeout",
                               !.at = th[t].t_end,
                               !.opened = th[t].t_start]]
    /\ UNCHANGED << status, current_step, step_data, results, overrides,
                    review_event, session_id, start_time, now, quota, loop,
                    manifest, resp, rd, reply, llm >>

\* the clock of FineSpec: it moves by two thirds of a second under a waiting
\* gate, and at most once while a collaborator is at work
FineTick ==
    /\ \E t \in Threads :
          \/ th[t].pc = "L149" /\ now < th[t].wait_until
          \/ th[t].pc = "L95" /\ now < th[t].t_start + TickSize
    /\ now' = now + TickSize
    /\ UNCHANGED << status, current_step, step_data, results, overrides,
                    pending_review, review_event, session_id, start_time,
                    th, quota, loop, manifest, resp, rd, reply, llm >>

FinePipeline(t) ==
    \/ RunBegin(t)
    \/ ExecEnter(t)
    \/ ExecMarkRunning(t)
    \/ ExecSetStart(t)
    \/ ExecClearEnd(t)
    \/ ExecClearDuration(t)
    \/ ExecEmitStart(t)
    \/ ExecStoreResult(t)
    \/ ExecMarkDone(t)
    \/ ExecSetEnd(t)
    \/ ExecSetDuration(t)
    \/ ExecEmitComplete(t)
    \/ ExecCatch(t)
    \/ ExecMarkError(t)
    \/ ExecSetErrorEnd(t)
    \/ ExecSetErrorDuration(t)
    \/ ExecEmitError(t)
    \/ RunCatch(t)
    \/ GateMarkReview(t)
    \/ GateSetStart(t)
    \/ GateClearEnd(t)
    \/ GateClearDuration(t)
    \/ GateSetCurrent(t)
    \/ GateSetPending(t)
    \/ GateEmitOpen(t)
    \/ GateClearEvent(t)
    \/ GateSetEnd(t)
    \/ GateSetDuration(t)
    \/ GateMarkDone(t)
    \/ GateEmitTimeout(t)
    \/ GateClose(t)
    \/ Finalize(t)

FineNext ==
    \/ FineTick
    \/ ReqRun
    \/ \E t \in Threads : FinePipeline(t)

FineSpec == Init /\ [][FineNext]_vars

(***************************************************************************)
(* QAReviewerAgent.improve_loop, with review_script and the writer's       *)
(* refine_script.  Scores are in half points; a script is its version.     *)
(***************************************************************************)
\* overall_score values the model may answer: 0.0, 7.0, 7.5, 8.0
Scores == { 0, 14, 15, 16 }

\* faulty variant of Approved: the approval the model answered is kept
ApprovedAsAnswered(score, flag) == flag

\* review_script, lines 80-83: the approval the review carries
Approved(score, flag) == score >= QA_AUTO_APPROVE_THRESHOLD

\* faulty variant of LoopGoesOn: the while test is off by one
LoopGoesOnOnceMore(l) == l.iterations <= l.max_iterations

\* improve_loop, line 175: the while test
LoopGoesOn(l) == l.iterations < l.max_iterations

\* faulty variant of ShouldRefine: the last iteration refines too
ShouldRefineAlways(l) == l.iterations <= l.max_iterations

\* improve_loop, line 194: refine only when an iteration is left
ShouldRefine(l) == l.iterations < l.max_iterations

\* faulty variant of AfterReview: an approved script is still refined while
\* iterations are left
AfterReviewNoBreak(l) ==
    IF ShouldRefine(l) THEN "refine"
    ELSE IF l.approved THEN "returned"
    ELSE "test"

\* improve_loop, lines 190-199: where the loop goes after a review
AfterReview(l) ==
    IF l.approved THEN "returned"
    ELSE IF ShouldRefine(l) THEN "refine"
    ELSE "test"

LoopInit ==
    /\ OrchInit
    /\ quota = 0
    /\ loop \in { [LoopIdle EXCEPT !.pc = "test", !.max_iterations = n] :
                     n \in 0..MaxIter }
    /\ llm = LlmIdle

\* lines 175-199, the model's answer parsed: review_script returns it with
\* its approval recomputed (lines 74-86)
LoopReview(score, flag) ==
    /\ loop.pc = "test"
    /\ LoopGoesOn(loop)
    /\ LET l1 == [loop EXCEPT
                     !.iterations = @ + 1,
                     !.reviews = @ + 1,
                     !.reviewed = loop.current_script,
                     !.score = score,
                     !.flag = flag,
                     !.failed = FALSE,
                     !.approved = Approved(score, flag),
                     !.all_low = @ /\ score < QA_AUTO_APPROVE_THRESHOLD]
           l2 == [l1 EXCEPT
                     !.first_pass = IF @ = 0 /\ l1.approved
                                    THEN l1.iterations ELSE @,
                     !.auto_approved =
                         @ \/ (~l1.approved /\ ~ShouldRefine(l1))]
       IN  loop' = [l2 EXCEPT !.pc = AfterReview(l2)]
    /\ UNCHANGED << orch, llm >>

\* lines 175-199, the model call or the parsing of its answer raised:
\* review_script returns its fallback review (lines 87-96)
LoopReviewFails ==
    /\ loop.pc = "test"
    /\ LoopGoesOn(loop)
    /\ LET l1 == [loop EXCEPT
                     !.iterations = @ + 1,
                     !.reviews = @ + 1,
                     !.reviewed = loop.current_script,
                     !.score = 0,
                     !.flag = FALSE,
                     !.failed = TRUE,
                     !.approved = FALSE,
                     !.all_low = @ /\ 0 < QA_AUTO_APPROVE_THRESHOLD]
           l2 == [l1 EXCEPT
                     !.auto_approved = @ \/ ~ShouldRefine(l1)]
       IN  loop' = [l2 EXCEPT !.pc = AfterReview(l2)]
    /\ UNCHANGED << orch, llm >>

\* line 196: writer_agent.refine_script returns a new version, or the script
\* it was given (nothing to fix, or its own model call failed)
LoopRefine(changed) ==
    /\ loop.pc = "refine"
    /\ loop' = [loop EXCEPT
                   !.revises = @ + 1,
                   !.current_script = IF changed THEN @ + 1 ELSE @,
                   !.pc = "test"]
    /\ UNCHANGED << orch, llm >>

\* lines 175 and 201-206: the while test fails and the loop returns
LoopReturn ==
    /\ loop.pc = "test"
    /\ ~LoopGoesOn(loop)
    /\ loop' = [loop EXCEPT !.pc = "returned"]
    /\ UNCHANGED << orch, llm >>

LoopNext ==
    \/ \E score \in Scores, flag \in BOOLEAN : LoopReview(score, flag)
    \/ LoopReviewFails
    \/ \E changed \in BOOLEAN : LoopRefine(changed)
    \/ LoopReturn

LoopSpec == LoopInit /\ [][LoopNext]_vars

(***************************************************************************)
(* LLMClient.complete (utils/llm_client.py): one call of the model-call    *)
(* helper, made by complete_json or by an agent.  A request that succeeds  *)
(* yields a completion, known here by its content; one that fails raises   *)
(* an error.                                                               *)
(***************************************************************************)
\* the wait before the retry, in seconds: time.sleep(3), line 62
RETRY_WAIT_SECONDS == 3

\* max_tokens: the default of complete (line 31), and what complete_json
\* passes (line 89)
MaxTokens == { 2000, 4096 }

Errors == { "timeout", "refused" }

Contents == { "content_a", "content_b" }

\* lines 35-53: the request _make_request sends, the same at every attempt
Request(l) ==
    [model_name |-> IF l.model = "main" THEN "model_main" ELSE "model_fast",
     json |-> l.response_format = "json",
     max_tokens |-> l.max_tokens]

LlmInit ==
    /\ OrchInit
    /\ quota = 0
    /\ loop = LoopIdle
    /\ llm \in { [LlmIdle EXCEPT !.pc = "first", !.model = m,
                                 !.response_format = f, !.max_tokens = k] :
                    m \in { "main", "fast" }, f \in { "text", "json" },
                    k \in MaxTokens }

\* faulty variant of AfterRetryFails: a failed retry is retried in its turn
AfterRetryFailsAgain == "sleep"

\* lines 66-68: the retry failed, its error is logged and raised again
AfterRetryFails == "raised"

\* lines 57-59: the first attempt succeeds
LlmFirstOk(c) ==
    /\ llm.pc = "first"
    /\ llm' = [llm EXCEPT !.sent = Append(@, Request(llm)),
                          !.response = c,
                          !.pc = "content"]
    /\ UNCHANGED << orch, loop >>

\* lines 57-61: the first attempt fails
LlmFirstFails(e) ==
    /\ llm.pc = "first"
    /\ llm' = [llm EXCEPT !.sent = Append(@, Request(llm)),
                          !.errors = Append(@, e),
                          !.pc = "sleep"]
    /\ UNCHANGED << orch, loop >>

\* line 62
LlmSleep ==
    /\ llm.pc = "sleep"
    /\ llm' = [llm EXCEPT !.slept = @ + RETRY_WAIT_SECONDS, !.pc = "retry"]
    /\ UNCHANGED << orch, loop >>

\* lines 63-65: the retry succeeds
LlmRetryOk(c) ==
    /\ llm.pc = "retry"
    /\ llm' = [llm EXCEPT !.sent = Append(@, Request(llm)),
                          !.response = c,
                          !.pc = "content"]
    /\ UNCHANGED << orch, loop >>

\* lines 63-68: the retry fails
LlmRetryFails(e) ==
    /\ llm.pc = "retry"
    /\ llm' = [llm EXCEPT !.sent = Append(@, Request(llm)),
                          !.errors = Append(@, e),
                          !.raised = IF AfterRetryFails = "raised" THEN e ELSE @,
                          !.pc = AfterRetryFails]
    /\ UNCHANGED << orch, loop >>

\* lines 70-77: the content of the completion is returned
LlmReturn ==
    /\ llm.pc = "content"
    /\ llm' = [llm EXCEPT !.returned = llm.response, !.pc = "returned"]
    /\ UNCHANGED << orch, loop >>

LlmNext ==
    \/ \E c \in Contents : LlmFirstOk(c)
    \/ \E e \in Errors : LlmFirstFails(e)
    \/ LlmSleep
    \/ \E c \in Contents : LlmRetryOk(c)
    \/ \E e \in Errors : LlmRetryFails(e)
    \/ LlmReturn

LlmSpec == LlmInit /\ [][LlmNext]_vars

(***************************************************************************)
(* LiveSpec: Spec with the clock running and the pipeline thread scheduled.*)
(***************************************************************************)
LiveSpec ==
    /\ Init
    /\ [][Next]_vars
    /\ WF_vars(TickSecond)
    /\ \A t \in Threads : WF_vars(GateClear(t)) /\ WF_vars(GateReturn(t))

(***************************************************************************)
(* FairSpec: Spec with the clock running and every pipeline thread taking  *)
(* its next step: a collaborator that was called returns or raises.        *)
(***************************************************************************)
FairSpec ==
    /\ Init
    /\ [][Next]_vars
    /\ WF_vars(TickSecond)
    /\ \A t \in Threads : WF_vars(Pipeline(t))

(***************************************************************************)
(* Properties.                                                             *)
(***************************************************************************)
Max0(x) == IF x < 0 THEN 0 ELSE x

Deadline(r) == r.opened + Seconds(HUMAN_REVIEW_TIMEOUT_SECONDS)

Returned(t) == th[t].ret.step # "none"

\* C1: at most one pipeline thread is alive at any time: a run request that
\* arrives while a run is still executing never starts a second thread.
C1_SingleActiveRun ==
    Cardinality({ t \in Threads : Alive(t) }) <= 1

\* C2: a gate that received an override for its own step while it was open
\* and short of its deadline returns on that signal, not on the timeout,
\* with the override when it is non-empty and the original payload when it
\* is empty.
C2_OverrideWhileOpenWakesGate ==
    \A t \in Threads :
        (Returned(t) /\ th[t].ret.intime) =>
            /\ th[t].ret.how = "override"
            /\ th[t].ret.payload =
                  (IF th[t].ret.own = "ovr" THEN "ovr" ELSE "orig")

\* C3: a gate that saw no override submitted while it was open returns the
\* original payload, by the timeout branch, not before T seconds after it
\* opened, having emitted review_window_timeout, with its step done.
C3_TimeoutReturnsOriginal ==
    \A t \in Threads :
        (Returned(t) /\ th[t].ret.own = "none" /\ ~th[t].ret.other) =>
            /\ th[t].ret.payload = "orig"
            /\ th[t].ret.how = "timeout"
            /\ th[t].ret.at >= Deadline(th[t].ret)
            /\ th[t].last_emit =
                  [event |-> "review_window_timeout", step |-> th[t].ret.step]
            /\ step_data[th[t].ret.step].status = "done"

C3_Witness ==
    \E t \in Threads :
        /\ Returned(t)
        /\ th[t].ret.own = "none" /\ ~th[t].ret.other
        /\ th[t].ret.step = "review_script"
        /\ overrides["review_script"] = "ovr"

\* C4: every opened review gate eventually returns, whatever the control
\* surface does: the pipeline thread is never left in a gate for ever.
C4_GateEventuallyReturns ==
    (\E t \in Threads : InGate(t)) ~> (\A t \in Threads : ~InGate(t))

C4_Witness ==
    \E t \in Threads :
        /\ th[t].pc = "gate_wait"
        /\ ~review_event
        /\ now >= th[t].wait_until

\* C5: from the return of a gate to the entry of the next step,
\* pending_review is null and the gate's step is done with its end_ts
\* recorded.
C5_GateClosedOnReturn ==
    \A t \in Threads :
        Returned(t) =>
            /\ pending_review = NoPending
            /\ step_data[th[t].ret.step].status = "done"
            /\ step_data[th[t].ret.step].end_ts # None
            /\ step_data[th[t].ret.step].end_ts = th[t].ret.at

C5_Witness ==
    \E t \in Threads :
        /\ Returned(t)
        /\ th[t].ret.how = "override"
        /\ th[t].pc = "ready"
        /\ Step(t) \in ExecSteps

\* C6: an override submitted for another step while a gate is open has no
\* effect on that gate: without an override of its own the gate returns as
\* it would have, at its deadline, by the timeout branch, with the original
\* payload.
C6_ForeignOverrideHasNoEffect ==
    \A t \in Threads :
        (Returned(t) /\ th[t].ret.other /\ th[t].ret.own = "none") =>
            /\ th[t].ret.how = "timeout"
            /\ th[t].ret.payload = "orig"
            /\ th[t].ret.at >= Deadline(th[t].ret)

\* C7 as stated: the loop returns after at most max_iterations review calls
\* and at most max_iterations - 1 revise calls.
C7_AtMostNMinusOneRevises ==
    loop.pc = "returned" =>
        /\ loop.reviews <= loop.max_iterations
        /\ loop.revises <= loop.max_iterations - 1

\* C7 as amended: the loop never makes more than max_iterations review calls
\* nor more than max(max_iterations - 1, 0) revise calls, and it is never
\* stuck: until it has returned it can always take its next step.
C7_LoopBounded ==
    /\ loop.reviews <= loop.max_iterations
    /\ loop.revises <= Max0(loop.max_iterations - 1)
    /\ loop.revises <= loop.reviews
    /\ loop.pc # "returned" => ENABLED LoopNext

C7_Witness ==
    /\ loop.pc = "returned"
    /\ loop.max_iterations >= 2
    /\ loop.reviews = loop.max_iterations
    /\ loop.revises = loop.max_iterations - 1

\* C8: with every score below the threshold and max_iterations = N >= 1, the
\* loop returns after exactly N review calls and N - 1 revise calls, with
\* iterations_taken = N and auto_approved true.
C8_AlwaysRejected ==
    (loop.pc = "returned" /\ loop.all_low /\ loop.max_iterations >= 1) =>
        /\ loop.reviews = loop.max_iterations
        /\ loop.revises = loop.max_iterations - 1
        /\ loop.iterations = loop.max_iterations
        /\ loop.auto_approved

C8_Witness ==
    /\ loop.pc = "returned"
    /\ loop.all_low
    /\ loop.max_iterations = 1
    /\ loop.reviews = 1
    /\ loop.revises = 0
    /\ loop.auto_approved

\* C9: the loop stops at the first iteration i whose review is approved:
\* it has made i review calls and i - 1 revise calls, it returns the script
\* that iteration reviewed with auto_approved false, and once it has
\* returned it makes no further call.
C9_StopsAtFirstApproval ==
    /\ loop.first_pass # 0 =>
          /\ loop.pc = "returned"
          /\ loop.approved
          /\ loop.iterations = loop.first_pass
          /\ loop.reviews = loop.first_pass
          /\ loop.revises = loop.first_pass - 1
          /\ loop.current_script = loop.reviewed
          /\ ~loop.auto_approved
    /\ loop.pc = "returned" => ~ENABLED LoopNext

C9_Witness ==
    /\ loop.pc = "returned"
    /\ loop.first_pass >= 2
    /\ loop.current_script >= 2

\* C10: the decision the loop acts on is score >= threshold, whatever
\* approval the reviewer answered: a passing score stops the loop as
\* approved, and a failing score never does.
C10_ThresholdDecides ==
    loop.reviews > 0 =>
        /\ loop.approved = (loop.score >= QA_AUTO_APPROVE_THRESHOLD)
        /\ loop.approved => (loop.pc = "returned" /\ ~loop.auto_approved)
        /\ (~loop.approved /\ loop.pc = "returned") => loop.auto_approved

C10_Witness ==
    /\ loop.pc = "returned"
    /\ loop.score >= QA_AUTO_APPROVE_THRESHOLD
    /\ ~loop.flag
    /\ ~loop.failed
    /\ ~loop.auto_approved

\* C11: a review that fails inside the refinement loop ends the loop there:
\* the failure leaves improve_loop as an exception, so that the loop neither
\* goes on to the reviser or to another iteration nor returns a result that
\* counts the failed iteration.
C11_ReviewerFailurePropagates ==
    loop.failed => loop.pc = "raised"

IndexOf(s) == CHOOSE i \in 1..Len(steps_list) : steps_list[i] = s

\* C12: once the collaborator of a non-review step k has raised, for the rest
\* of the run the pipeline thread has ended in failure, status is failed,
\* step k is in error and has no result, current_step is k, the last event
\* is step_error for k, every step after k is still pending without a
\* result, and no manifest has been written.
C12_CollaboratorFailureStopsRun ==
    \A t \in Threads :
        th[t].last_emit.event = "step_error" =>
            LET k == th[t].last_emit.step IN
            /\ k \in ExecSteps
            /\ th[t].pc = "failed"
            /\ status = "failed"
            /\ step_data[k].status = "error"
            /\ results[k] = "absent"
            /\ current_step = k
            /\ \A j \in 1..Len(steps_list) :
                  j > IndexOf(k) =>
                     /\ step_data[steps_list[j]].status = "pending"
                     /\ step_data[steps_list[j]].start_ts = None
                     /\ results[steps_list[j]] = "absent"

C12_Witness ==
    \E t \in Threads :
        /\ th[t].last_emit = [event |-> "step_error", step |-> "voiceover"]
        /\ step_data["review_qa"].status = "done"
        /\ status = "failed"

\* a step has been entered: its state has left pending (finalize, which has
\* no state of its own: its result is stored)
Entered(i) ==
    IF steps_list[i] = "finalize"
    THEN results["finalize"] # "absent"
    ELSE step_data[steps_list[i]].status # "pending"

\* C13: a step is entered only when every earlier step of the list is done,
\* and a step is entered at most once: its state becomes running or review
\* only from pending.
C13_FixedOrder ==
    /\ [](\A i \in 1..Len(steps_list) :
             Entered(i) =>
                \A j \in 1..(i - 1) : step_data[steps_list[j]].status = "done")
    /\ [][\A s \in Steps :
             (/\ step_data'[s].status \in { "running", "review" }
              /\ step_data'[s] # step_data[s])
                => step_data[s].status = "pending"]_vars

C13_Witness ==
    /\ Entered(Len(steps_list))
    /\ \A i \in 1..(Len(steps_list) - 1) :
          step_data[steps_list[i]].status = "done"

Abs(x) == IF x < 0 THEN 0 - x ELSE x

\* the steps whose state is done or error
Terminal == { s \in Steps : step_data[s].status \in { "done", "error" } }

\* C15 as stated: the progress an answer of get_status carries is exactly
\* 100 * (steps done or in error) / (steps), here in hundredths of a percent.
C15_ProgressIsExactRatio ==
    reply.kind = "ok" =>
        Len(steps_list) * reply.progress_percent = 10000 * reply.done_count

\* C15 as amended: get_status counts exactly the steps that are done or in
\* error, a step that is running or in review is not counted, the progress
\* it answers is 100 * count / steps to the nearest hundredth, and from one
\* answer to the next the progress grows only if the count has grown.
C15_ProgressIsRoundedRatio ==
    [][/\ (rd.pc = "idle" /\ rd'.pc # "idle") =>
             /\ rd'.done_count = Cardinality(Terminal)
             /\ 2 * Abs(Len(steps_list) * rd'.progress
                          - 10000 * Cardinality(Terminal)) <= Len(steps_list)
       /\ (reply' # reply /\ reply'.kind = "ok") =>
             /\ reply'.progress_percent = rd.progress
             /\ reply'.done_count = rd.done_count
       /\ (/\ reply.kind = "ok" /\ reply'.kind = "ok"
           /\ reply'.progress_percent > reply.progress_percent) =>
             reply'.done_count > reply.done_count]_vars

C15_Witness ==
    /\ reply.kind = "ok"
    /\ reply.done_count = 1
    /\ reply.progress_percent = 714
    /\ reply.seen["review_research"].status = "review"

\* C16: in an answer of get_status a step with a stored duration carries it,
\* a step without one that is running or in review and has started carries
\* the live duration now - start_ts (to the tenth of a second), and every
\* other step carries none.
C16_SnapshotDuration ==
    reply.kind = "ok" =>
        \A s \in Steps :
            LET sd == reply.seen[s]
                d  == reply.steps[s].duration_s
            IN  IF sd.duration_s # None
                THEN d = sd.duration_s
                ELSE IF sd.status \in { "running", "review" } /\ sd.start_ts # None
                THEN d # None /\ 2 * Abs(d - (reply.now - sd.start_ts)) <= 3
                ELSE d = None

C18_StatusIsPureRead ==
    [][/\ (rd' # rd \/ reply' # reply) =>
             UNCHANGED << status, current_step, step_data, results,
                          overrides, pending_review, review_event >>
       /\ reply'.kind # "error"]_vars

\* C19: the answer to an accepted run request carries a session_id, never
\* null, and it is the session_id the thread that request started gives its
\* run.
C19_RunAnswersItsSessionId ==
    \A t \in Threads :
        resp[t] \notin { NotAsked, Unanswered } =>
            /\ resp[t] # None
            /\ th[t].sid # None => resp[t] = th[t].sid

\* C20: in every state of the run, each step has end_ts and duration_s both
\* null or both set, a stored duration_s is end_ts - start_ts, and a step
\* whose status is done has both.
C20_EndAndDurationTogether ==
    \A s \in Steps :
        LET sd == step_data[s] IN
        /\ (sd.end_ts = None) = (sd.duration_s = None)
        /\ sd.duration_s # None => sd.duration_s = sd.end_ts - sd.start_ts
        /\ sd.status = "done" => (sd.end_ts # None /\ sd.duration_s # None)

\* C21: every change of a step's status follows the per-step state machine:
\* pending, done or error go only to running or review, with end_ts and
\* duration_s null on entry; running goes only to done or error; review
\* goes only to done.
C21_StepStateMachine ==
    [][\A s \in Steps :
         LET a == step_data[s].status
             b == step_data'[s].status
         IN  a # b =>
               \/ /\ a \in { "pending", "done", "error" }
                  /\ b \in { "running", "review" }
                  /\ step_data'[s].end_ts = None
                  /\ step_data'[s].duration_s = None
               \/ a = "running" /\ b \in { "done", "error" }
               \/ a = "review" /\ b = "done"]_vars

\* C22: when a run is started on an Orchestrator whose earlier run has ended
\* and no other run is alive, then before its first step is entered
\* current_step, results, overrides, pending_review and the state of every
\* step are as __init__ left them.
C22_RunStartsFromInitialState ==
    \A t \in Threads :
        (/\ th[t].pc = "ready" /\ th[t].idx = 1
         /\ \E u \in Threads : th[u].pc \in { "done", "failed" }
         /\ \A u \in Threads \ { t } : ~Alive(u)) =>
            /\ current_step = "none"
            /\ results = [s \in Steps |-> "absent"]
            /\ overrides = [s \in Steps |-> "absent"]
            /\ pending_review = NoPending
            /\ step_data = InitStepData

\* a run that was cancelled and whose thread is still at work
Cancelled == status = "idle" /\ \E t \in Threads : th[t].idx >= 1 /\ Alive(t)

\* C23: a cancel request changes the pipeline status and nothing else: the
\* pipeline thread, the step states, the results, pending_review and the
\* event are as they were; the status of a cancelled run then stays idle
\* until the thread, which goes on through the remaining steps, ends the run
\* and stores completed or failed, which it eventually does.
C23_CancelOnlyFlipsStatus ==
    /\ [][(status = "running" /\ status' = "idle") =>
             UNCHANGED << current_step, step_data, results, overrides,
                          pending_review, review_event, session_id,
                          start_time, th, manifest >>]_vars
    /\ [][Cancelled =>
             \/ status' = "idle" /\ \E t \in Threads : Alive(t)'
             \/ /\ status' \in { "completed", "failed" }
                /\ \A t \in Threads : ~Alive(t)']_vars
    /\ Cancelled ~> (status \in { "completed", "failed" })

C23_Witness ==
    /\ status = "idle"
    /\ \E t \in Threads : th[t].pc = "call" /\ Step(t) = "metadata"
    /\ step_data["review_qa"].status = "done"

\* C24: a gate returns the override its step has in the store when that
\* override was submitted before the gate opened and none was submitted for
\* the step while it was open: the stored override, not the original
\* payload, is what the gate returns.
C24_StoredOverrideTakesEffect ==
    [][\A t \in Threads :
         (/\ th[t].pc = "gate_wait" /\ th'[t].pc = "ready"
          /\ th[t].own = "none"
          /\ overrides[Step(t)] = "ovr") =>
            th'[t].ret.payload = "ovr"]_vars

StepStart(k) == [event |-> "step_start", step |-> k]

\* C25, the part on the order before the collaborator returns or raises:
\* current_step is set before the state is running, and step_start is
\* emitted before the collaborator is called
C25_OrderOfEntry ==
    \A t \in Threads : \A k \in ExecSteps :
        /\ step_data[k].status = "running" => current_step = k
        /\ (/\ th[t].idx >= 1
            /\ current_step = k
            /\ \/ results[k] # "absent"
               \/ step_data[k].status \in { "done", "error" }) =>
              /\ th[t].last_emit.step = k
              /\ th[t].last_emit.event \in
                    { "step_start", "step_complete", "step_error" }

\* C25, the part on a success: result stored, state done, step_complete
C25_OrderOfSuccess ==
    \A t \in Threads : \A k \in ExecSteps :
        /\ step_data[k].status = "done" => results[k] # "absent"
        /\ th[t].last_emit = [event |-> "step_complete", step |-> k] =>
              step_data[k].status = "done"

\* C25, the part on a failure: state error, status failed, step_error
C25_OrderOfFailure ==
    /\ status = "failed" => \E k \in ExecSteps : step_data[k].status = "error"
    /\ \A t \in Threads : \A k \in ExecSteps :
          th[t].last_emit = [event |-> "step_error", step |-> k] =>
             /\ step_data[k].status = "error"
             /\ status = "failed"
             /\ results[k] = "absent"

\* C25, the part on the events: step_complete and step_error answer the
\* step_start of their own step, and no step_start or review_window_open
\* follows a step_start that has not been answered
C25_OneAnswerPerStart ==
    \A t \in Threads :
        th'[t].last_emit # th[t].last_emit =>
            /\ th'[t].last_emit.event \in { "step_complete", "step_error" } =>
                  th[t].last_emit = StepStart(th'[t].last_emit.step)
            /\ th'[t].last_emit.event \in { "step_start", "review_window_open" } =>
                  th[t].last_emit.event # "step_start"

\* C25: each execution of a non-review step produces its effects in the
\* order current_step, state running, step_start, the collaborator's call,
\* then either result stored, state done, step_complete or state error,
\* status failed, step_error; every step_start is answered by exactly one
\* step_complete or step_error of its step before the next step_start or
\* review_window_open.
C25_EffectOrder ==
    /\ [](C25_OrderOfEntry /\ C25_OrderOfSuccess /\ C25_OrderOfFailure)
    /\ [][C25_OneAnswerPerStart]_vars

\* the steps whose state is review
InReview == { s \in Steps : step_data[s].status = "review" }

\* C26: in every state at most one step is in review, pending_review is set
\* exactly when one is, and it then names that step, which is current_step.
C26_PendingTracksGate ==
    /\ Cardinality(InReview) <= 1
    /\ (pending_review # NoPending) = (Cardinality(InReview) = 1)
    /\ pending_review # NoPending =>
          /\ pending_review.step \in InReview
          /\ current_step = pending_review.step

\* C27: a call of complete sends at most two requests; the second is sent
\* only after the first has failed and the call has slept the fixed wait
\* once, and it is the same request; a call whose last attempt succeeded
\* returns the content of that attempt; a call whose retry failed raises the
\* retry's error; and a call that has returned or raised does nothing more.
C27_AtMostTwoAttempts ==
    LET attempts == Len(llm.sent)
        failures == Len(llm.errors)
    IN  /\ attempts <= 2
        /\ failures <= attempts
        /\ llm.slept = (IF failures >= 1 /\ llm.pc # "sleep"
                        THEN RETRY_WAIT_SECONDS ELSE 0)
        /\ attempts = 2 =>
              /\ failures >= 1
              /\ llm.sent[2] = llm.sent[1]
        /\ (attempts >= 1 /\ failures < attempts) =>
              /\ llm.pc \in { "content", "returned" }
              /\ llm.response # "none"
        /\ llm.pc = "returned" =>
              /\ failures = attempts - 1
              /\ llm.returned = llm.response
              /\ llm.raised = "none"
        /\ llm.pc = "raised" =>
              /\ attempts = 2
              /\ failures = 2
              /\ llm.raised = llm.errors[2]
              /\ llm.returned = "none"
        /\ llm.pc \in { "returned", "raised" } <=> ~ENABLED LlmNext

C27_Witness ==
    /\ llm.pc = "returned"
    /\ Len(llm.sent) = 2
    /\ llm.errors = << "timeout" >>
    /\ llm.slept = RETRY_WAIT_SECONDS
    /\ llm.returned = "content_b"

\* the steps whose state is error
InError == { s \in Steps : step_data[s].status = "error" }

\* C28: when the pipeline thread has ended and the status is failed, exactly
\* one step is in error, it is current_step, and the last event emitted is
\* step_error for that step.
C28_FailedRunNamesItsStep ==
    \A t \in Threads :
        (th[t].pc = "failed" /\ status = "failed") =>
            /\ Cardinality(InError) = 1
            /\ current_step \in InError
            /\ th[t].last_emit = [event |-> "step_error", step |-> current_step]

\* C29: when the pipeline status is completed, every step of steps_list,
\* finalize included, is done with its end_ts set, and the progress
\* get_status computes is 100 percent.
C29_CompletedMeansAllDone ==
    status = "completed" =>
        /\ \A s \in Steps :
              /\ step_data[s].status = "done"
              /\ step_data[s].end_ts # None
        /\ ProgressPercent(DoneCount) = 100 * 100

\* C30: whenever the loop has returned, whatever max_iterations it was
\* started with, exactly one of approved (the final review) and
\* auto_approved is true, and auto_approved is true only with
\* iterations_taken = max_iterations and a final review that rejected.
C30_ApprovedXorAutoApproved ==
    loop.pc = "returned" =>
        /\ loop.approved # loop.auto_approved
        /\ loop.auto_approved =>
              /\ loop.iterations = loop.max_iterations
              /\ ~loop.approved

====
